---- MODULE Spec2Model ----
(***************************************************************************)
(* pulse_stream: a Polar H10 heart-rate / ECG monitor.                     *)
(*                                                                         *)
(*   src/pulsestream.py          decoders (parse_hrm, parse_ecg_data), the *)
(*                               two hand-off queues, the notification     *)
(*                               handlers, the BLE session (run_bluetooth, *)
(*                               start_ecg_stream) and the consumer loop   *)
(*                               (main).                                   *)
(*   src/heartbeat_visualizer.py the consumer-side state: the dynamic      *)
(*                               display range and the rolling histories.  *)
(*                                                                         *)
(* Python floats are modelled by the exact values they stand for.          *)
(* Animation-only fields of the visualizer (pulse_phase,                   *)
(* glow_intensity, last_beat_time, height, screen) are read by the drawing *)
(* code only and are not part of the state; the division that computes the *)
(* glow is kept because it can raise.                                      *)
(***************************************************************************)
EXTENDS Integers, Sequences, FiniteSets, TLC

(***************************************************************************)
(* Bounds of the model                                                     *)
(***************************************************************************)
\* notifications (heart-rate and ECG together) delivered in one run
MaxNotify == 2
\* update_heart_rate calls explored by the visualizer-only specification
MaxUpdates == 14
\* items the unbounded ecg_data_queue holds at most where the ECG stream has
\* no end
MaxQueue == 2
\* length of the buffers handed to parse_hrm by the decoder-only specification
MaxLen == 6
\* bytes after the 10-byte header in the payloads handed to parse_ecg_data
MaxEcgBody == 7
\* update_heart_rate calls explored with the full range of decodable rates
MaxWide == 3
\* update_heart_rate calls explored together with window resizes
MaxResizeUpdates == 5
\* update_heart_rate calls explored with one rate repeated
MaxSteady == 24

(***************************************************************************)
(* Small helpers                                                           *)
(***************************************************************************)
Min(a, b) == IF a < b THEN a ELSE b

Max(a, b) == IF a > b THEN a ELSE b

Abs(a) == IF a < 0 THEN 0 - a ELSE a

RECURSIVE Gcd(_, _)
Gcd(a, b) == IF b = 0 THEN a ELSE Gcd(b, a % b)

\* the last n elements of s (all of s when it is shorter)
LastN(s, n) == IF Len(s) <= n THEN s ELSE SubSeq(s, Len(s) - n + 1, Len(s))

(***************************************************************************)
(* Python floats.  The RR intervals are rationals <<n, d>> (d > 0, lowest  *)
(* terms).  The display range is an exact non-negative decimal <<ip, fs>>: *)
(* integer part ip and fractional digits fs (most significant first, no    *)
(* trailing zero), so that a long run of smoothing steps stays exact.      *)
(***************************************************************************)
RNorm(n, d) ==
    LET g == Gcd(Abs(n), Abs(d))
        s == IF d < 0 THEN 0 - 1 ELSE 1
    IN  <<(s * n) \div g, (s * d) \div g>>

RECURSIVE Strip(_)
Strip(fs) ==
    IF fs # <<>> /\ fs[Len(fs)] = 0 THEN Strip(SubSeq(fs, 1, Len(fs) - 1)) ELSE fs

D(i) == <<i, <<>>>>

DNormal(ip, fs) == <<ip, Strip(fs)>>

\* fs * m for a digit string: <<carry into the integer part, digits>>
RECURSIVE MulFrac(_, _)
MulFrac(fs, m) ==
    IF fs = <<>> THEN <<0, <<>>>>
    ELSE LET rest == MulFrac(Tail(fs), m)
             v == Head(fs) * m + rest[1]
         IN  <<v \div 10, <<v % 10>> \o rest[2]>>

DMulSmall(x, m) ==
    LET f == MulFrac(x[2], m) IN DNormal(x[1] * m + f[1], f[2])

\* a + b for two digit strings of the same length
RECURSIVE AddFrac(_, _)
AddFrac(a, b) ==
    IF a = <<>> THEN <<0, <<>>>>
    ELSE LET rest == AddFrac(Tail(a), Tail(b))
             v == Head(a) + Head(b) + rest[1]
         IN  <<v \div 10, <<v % 10>> \o rest[2]>>

PadTo(fs, n) == fs \o [k \in 1..(n - Len(fs)) |-> 0]

DAdd(x, y) ==
    LET n == Max(Len(x[2]), Len(y[2]))
        f == AddFrac(PadTo(x[2], n), PadTo(y[2], n))
    IN  DNormal(x[1] + y[1] + f[1], f[2])

\* x + k and x - k for an integer k (x - k is never negative where it is used)
DAddInt(x, k) == <<x[1] + k, x[2]>>

\* x / 10
DShift(x) == DNormal(x[1] \div 10, <<x[1] % 10>> \o x[2])

\* x / 2
DHalf(x) == DShift(DMulSmall(x, 5))

RECURSIVE FracLt(_, _)
FracLt(a, b) ==
    IF b = <<>> THEN FALSE
    ELSE IF a = <<>> THEN TRUE
    ELSE IF Head(a) # Head(b) THEN Head(a) < Head(b)
    ELSE FracLt(Tail(a), Tail(b))

DLt(x, y) == x[1] < y[1] \/ (x[1] = y[1] /\ FracLt(x[2], y[2]))

DLe(x, y) == ~DLt(y, x)

DMax(x, y) == IF DLt(x, y) THEN y ELSE x

DMin(x, y) == IF DLt(y, x) THEN y ELSE x

(***************************************************************************)
(* Python bytes: sequences of 0..255, indexed from 0 in the source         *)
(***************************************************************************)
\* data[i:j]: a slice never raises, it is clipped to the buffer
Slice(data, i, j) == SubSeq(data, i + 1, Min(j, Len(data)))

\* int.from_bytes(s, "big"): the most significant byte first
RECURSIVE FromBytesBE(_)
FromBytesBE(s) ==
    IF s = <<>> THEN 0
    ELSE s[Len(s)] + 256 * FromBytesBE(SubSeq(s, 1, Len(s) - 1))

\* int.from_bytes(s, "little"); the empty slice decodes to 0
RECURSIVE FromBytesLE(_)
FromBytesLE(s) == IF s = <<>> THEN 0 ELSE Head(s) + 256 * FromBytesLE(Tail(s))

\* int.from_bytes(s, "little") where the source asks for signed=True
FromBytesLEUnsigned(s) == FromBytesLE(s)

\* int.from_bytes(s, "little", signed=True) for a 3-byte slice
FromBytesLESigned(s) ==
    LET u == FromBytesLE(s)
        half == 2 ^ (8 * Len(s) - 1)
    IN  IF Len(s) > 0 /\ u >= half THEN u - 2 * half ELSE u

\* bool(flags & (1 << k))
Bit(flags, k) == (flags \div (2 ^ k)) % 2 = 1

(***************************************************************************)
(* parse_hrm                                                               *)
(***************************************************************************)
\* the while loop of the RR fields; rr * 1000 / 1024 is exact in a double
RECURSIVE RRLoop(_, _)
RRLoop(data, i) ==
    IF i + 1 < Len(data)
    THEN <<RNorm(FromBytesLE(Slice(data, i, i + 2)) * 1000, 1024)>>
         \o RRLoop(data, i + 2)
    ELSE <<>>

NoFlags ==
    [sensor_contact_supported |-> FALSE, sensor_contact_detected |-> FALSE,
     hr_16bit |-> FALSE, error |-> FALSE]

\* what a call that raised leaves behind: no value, only the exception
Raised(exc) == [raised |-> exc, hr |-> 0, rr_list |-> <<>>, flags |-> NoFlags]

parse_hrm(data) ==
    IF Len(data) < 1
    THEN Raised("IndexError")                      \* flags = data[0]
    ELSE
      LET flags == data[1]
          hr_16bit == Bit(flags, 0)
          energy_expended_present == Bit(flags, 3)
          rr_present == Bit(flags, 4)
      IN  IF ~hr_16bit /\ Len(data) < 2
          THEN Raised("IndexError")                \* hr = data[1]
          ELSE
            LET hr == IF hr_16bit THEN FromBytesLE(Slice(data, 1, 3))
                                  ELSE data[2]
                i1 == IF hr_16bit THEN 3 ELSE 2
                i2 == IF energy_expended_present THEN i1 + 2 ELSE i1
            IN  [raised |-> "none",
                 hr |-> hr,
                 rr_list |-> IF rr_present THEN RRLoop(data, i2) ELSE <<>>,
                 flags |-> [sensor_contact_supported |-> Bit(flags, 2),
                            sensor_contact_detected |-> Bit(flags, 1),
                            hr_16bit |-> hr_16bit,
                            error |-> FALSE]]

\* contact = "yes" if flags["sensor_contact_detected"] else "no/unknown"
contact(flags) == IF flags.sensor_contact_detected THEN "yes" ELSE "no/unknown"

(***************************************************************************)
(* parse_ecg_data                                                          *)
(***************************************************************************)
\* the for loop over range(start_idx, len(data) - 2, 3)
RECURSIVE EcgLoop(_, _)
EcgLoop(data, i) ==
    IF i < Len(data) - 2
    THEN (IF i + 2 < Len(data)
          THEN <<FromBytesLESigned(Slice(data, i, i + 3))>>
          ELSE <<>>) \o EcgLoop(data, i + 3)
    ELSE <<>>

parse_ecg_data(data) == IF Len(data) < 10 THEN <<>> ELSE EcgLoop(data, 10)

(***************************************************************************)
(* State                                                                   *)
(***************************************************************************)
VARIABLES
    \* --- the Bridge (module globals of pulsestream.py) ---
    hr_data_queue,      \* queue.Queue(): heart-rate items, head first
    ecg_data_queue,     \* queue.Queue(): ECG sample lists, head first
    csv_log,            \* rows appended to the CSV file by log_hr_data
    \* --- the transport context: run_bluetooth on the daemon thread ---
    bt_pc,              \* the await the coroutine is suspended at
    bt_exc,             \* the exception in flight while unwinding
    services,           \* client.services after connecting
    ecg_started,        \* local ecg_started of run_bluetooth
    subscribed,         \* characteristics with a live notification callback
    gatt_log,           \* the client calls made so far: <<op, target, ok>>
    bt_printed,         \* lines printed by run_bluetooth and start_ecg_stream
    n_notify,           \* notifications delivered so far
    \* --- the consumer context: main() and the HeartbeatVisualizer ---
    c_pc,               \* position in the main loop
    running,            \* local running of main
    width,
    hr_min,
    hr_max,
    current_hr,
    hr_history,
    time_history,
    ecg_history,
    ecg_enabled,
    clock,              \* number of time.time() stamps taken by update_heart_rate
    \* --- history variables (not program state) ---
    hr_pushed,          \* every item offered to hr_data_queue.put_nowait
    ecg_pushed,         \* every item offered to ecg_data_queue.put_nowait
    hr_delivered,       \* every item handed to visualizer.update_heart_rate
    ecg_delivered,      \* every item handed to visualizer.update_ecg_data
    escaped,            \* handlers an exception has escaped from
    dyn_args,           \* arguments update_dynamic_range was invoked with
    tick_hr,            \* this tick's heart-rate drain: queue at its start,
                        \*   items got, whether a push happened since
    tick_ecg,           \* the same for this tick's ECG drain
    \* --- the decoder-only specification ---
    p_data,             \* the buffer under test
    p_result,           \* whether parse_hrm was called on it, and its outcome
    e_result            \* whether parse_ecg_data was called on it, and its samples

bridge_vars == <<hr_data_queue, ecg_data_queue, csv_log>>

bt_vars ==
    <<bt_pc, bt_exc, services, ecg_started, subscribed, gatt_log, bt_printed>>

viz_vars ==
    <<width, hr_min, hr_max, current_hr, hr_history, time_history,
      ecg_history, ecg_enabled, clock, dyn_args>>

loop_vars == <<c_pc, running, tick_hr, tick_ecg>>

hist_vars == <<hr_pushed, ecg_pushed, hr_delivered, ecg_delivered, escaped>>

parse_vars == <<p_data, p_result, e_result>>

vars ==
    <<bridge_vars, bt_vars, n_notify, viz_vars, loop_vars, hist_vars, parse_vars>>

(***************************************************************************)
(* queue.Queue                                                             *)
(***************************************************************************)
\* queue.Queue() is built without a maxsize: 0 means "no upper bound"
maxsize == 0

\* Queue.put_nowait: raises queue.Full only when 0 < maxsize <= qsize()
put_nowait(q, item) ==
    IF maxsize > 0 /\ Len(q) >= maxsize
    THEN [q |-> q, full |-> TRUE]
    ELSE [q |-> Append(q, item), full |-> FALSE]

\* a get_nowait that takes the newest item instead of the oldest
get_nowait_newest(q) == [item |-> q[Len(q)], q |-> SubSeq(q, 1, Len(q) - 1)]

\* Queue.get_nowait on a non-empty queue: the head, and the rest
get_nowait(q) == [item |-> Head(q), q |-> Tail(q)]

(***************************************************************************)
(* HeartbeatVisualizer                                                     *)
(***************************************************************************)
hr_min_base == 20

hr_max_base == 180

dynamic_range_padding == 20

\* range_smoothing = 0: the range never moves
Smooth_frozen(x, target) == x

\* range_smoothing = 0.1: x += (target - x) * 0.1, which is (9x + target) / 10
Smooth(x, target) == DShift(DAddInt(DMulSmall(x, 9), target))

InitWidth == 1200

\* a bounded buffer that refuses the new element when it is full
DequeAppend_keep_oldest(q, x, m) == IF Len(q) < m THEN Append(q, x) ELSE q

\* collections.deque(maxlen=m).append(x)
DequeAppend(q, x, m) == LastN(Append(q, x), m)

\* collections.deque(maxlen=m).extend(xs)
DequeExtend(q, xs, m) == LastN(q \o xs, m)

\* update_dynamic_range without the clamp of hr_max after recentring
update_dynamic_range_unclamped(mn, mx, bpm) ==
    LET target_min == Max(hr_min_base, bpm - dynamic_range_padding)
        target_max == Min(hr_max_base, bpm + dynamic_range_padding)
        mn1 == Smooth(mn, target_min)
        mx1 == Smooth(mx, target_max)
    IN  IF DLt(mx1, DAddInt(mn1, 40))
        THEN LET center == DHalf(DAdd(mn1, mx1))
             IN  <<DMax(D(hr_min_base), DAddInt(center, 0 - 20)),
                   DAddInt(center, 20)>>
        ELSE <<mn1, mx1>>

\* target_min = max(self.hr_min_base, current_hr - self.dynamic_range_padding)
target_min(bpm) == Max(hr_min_base, bpm - dynamic_range_padding)

\* target_max = min(self.hr_max_base, current_hr + self.dynamic_range_padding)
target_max(bpm) == Min(hr_max_base, bpm + dynamic_range_padding)

\* update_dynamic_range(current_hr): the new <<hr_min, hr_max>>
update_dynamic_range(mn, mx, bpm) ==
    LET mn1 == Smooth(mn, target_min(bpm))
        mx1 == Smooth(mx, target_max(bpm))
    IN  \* if self.hr_max - self.hr_min < 40
        IF DLt(mx1, DAddInt(mn1, 40))
        THEN LET center == DHalf(DAdd(mn1, mx1))
             IN  <<DMax(D(hr_min_base), DAddInt(center, 0 - 20)),
                   DMin(D(hr_max_base), DAddInt(center, 20))>>
        ELSE <<mn1, mx1>>

\* the range update of update_heart_rate with the test on hr left out
range_after_heart_rate_always(mn, mx, hr) ==
    [range |-> update_dynamic_range(mn, mx, hr), called |-> TRUE]

\* "if hr > 0: self.update_dynamic_range(hr)"
range_after_heart_rate(mn, mx, hr) ==
    IF hr > 0
    THEN [range |-> update_dynamic_range(mn, mx, hr), called |-> TRUE]
    ELSE [range |-> <<mn, mx>>, called |-> FALSE]

\* (hr - hr_min) / (hr_max - hr_min) raises ZeroDivisionError
update_heart_rate_raises(hr) == hr > 0 /\ hr_max = hr_min

\* update_heart_rate(hr, rr_intervals); when the division raises, the
\* assignments made before it stay
update_heart_rate(hr, rr_intervals) ==
    LET r == range_after_heart_rate(hr_min, hr_max, hr)
        ok == ~update_heart_rate_raises(hr)
    IN  /\ clock' = clock + 1
        /\ current_hr' = hr
        /\ hr_history' = DequeAppend(hr_history, hr, width \div 2)
        /\ time_history' = DequeAppend(time_history, clock + 1, width \div 2)
        /\ hr_min' = IF ok THEN r.range[1] ELSE hr_min
        /\ hr_max' = IF ok THEN r.range[2] ELSE hr_max
        /\ dyn_args' = IF ok /\ r.called THEN dyn_args \cup {hr} ELSE dyn_args
        /\ UNCHANGED <<width, ecg_history, ecg_enabled>>

\* update_ecg_data(ecg_samples)
update_ecg_data(ecg_samples) ==
    /\ ecg_enabled' = (ecg_enabled \/ ecg_samples # <<>>)
    /\ ecg_history' = IF ecg_samples # <<>>
                      THEN DequeExtend(ecg_history, ecg_samples, width * 4)
                      ELSE ecg_history
    /\ UNCHANGED <<width, hr_min, hr_max, current_hr, hr_history,
                   time_history, clock, dyn_args>>

\* pygame events as handle_events sees them
Quit == [type |-> "QUIT", key |-> "", w |-> 0]

KeyDown(k) == [type |-> "KEYDOWN", key |-> k, w |-> 0]

VideoResize(w) == [type |-> "VIDEORESIZE", key |-> "", w |-> w]

\* the for loop of handle_events over pygame.event.get(), from the state st
RECURSIVE handle_events(_, _)
handle_events(events, st) ==
    IF events = <<>>
    THEN [st EXCEPT !.result = TRUE]
    ELSE
      LET event == Head(events)
      IN  IF event.type = "QUIT"
          THEN [st EXCEPT !.result = FALSE]
          ELSE IF event.type = "KEYDOWN" /\ event.key = "K_ESCAPE"
          THEN [st EXCEPT !.result = FALSE]
          ELSE IF event.type = "VIDEORESIZE"
          THEN handle_events(Tail(events),
                 [st EXCEPT !.width = event.w,
                            !.hr_history = LastN(st.hr_history, event.w \div 2),
                            !.time_history = LastN(st.time_history, event.w \div 2),
                            !.ecg_history = LastN(st.ecg_history, event.w * 4)])
          ELSE handle_events(Tail(events), st)

(***************************************************************************)
(* The transport context: notification handlers                            *)
(***************************************************************************)
\* main returned or died: the daemon thread running the BLE loop is gone
Alive == c_pc \notin {"exited", "crashed"}

\* f"{r:.1f}" of a value k/128 (exact in a double): tenths, ties to even
FormatTenths(r) ==
    LET n == r[1] * 10
        q == n \div r[2]
        rem == n % r[2]
    IN  IF 2 * rem > r[2] THEN q + 1
        ELSE IF 2 * rem < r[2] THEN q
        ELSE IF q % 2 = 0 THEN q ELSE q + 1

\* the row log_hr_data(hr, rr_list, ecg_samples) appends (csv_filename is set
\* by setup_csv_logging before the thread starts); the two time columns are
\* left out
log_hr_data(hr, rr_list, ecg_samples) ==
    [hr_bpm |-> hr,
     rr_intervals_ms |-> [k \in DOMAIN rr_list |-> FormatTenths(rr_list[k])],
     ecg_samples |-> ecg_samples]

\* the buffers the heart-rate characteristic delivers in this model:
\* empty, 8-bit 70 bpm, 16-bit 200 bpm with one RR of 0x0200
HrmPackets ==
    { <<>>, <<0, 70>>, <<17, 200, 0, 0, 2>> }

\* the buffers the PMD data characteristic delivers: a 3-byte keep-alive
\* frame, and a 10-byte header followed by the samples 1 and -1
EcgPackets ==
    { <<0, 0, 0>>,
      <<0, 0, 0, 0, 0, 0, 0, 0, 0, 0, 1, 0, 0, 255, 255, 255>> }

\* a handler that feeds the visualizer itself instead of leaving it to main
notification_handler_direct(data) ==
    /\ Alive
    /\ "HRM_CHAR" \in subscribed
    /\ n_notify < MaxNotify
    /\ n_notify' = n_notify + 1
    /\ LET r == parse_hrm(data)
           item == [seq |-> Len(hr_pushed) + 1, hr |-> r.hr,
                    rr_list |-> r.rr_list, flags |-> r.flags]
           put == put_nowait(hr_data_queue, item)
       IN  IF r.raised # "none"
           THEN /\ escaped' = escaped \cup {"notification_handler"}
                /\ UNCHANGED <<bridge_vars, hr_pushed, tick_hr, viz_vars>>
           ELSE /\ csv_log' = Append(csv_log, log_hr_data(r.hr, r.rr_list, <<>>))
                /\ hr_data_queue' = put.q
                /\ hr_pushed' = Append(hr_pushed, item)
                /\ tick_hr' = [tick_hr EXCEPT !.pushed = @ \/ ~put.full]
                /\ update_heart_rate(r.hr, r.rr_list)
                /\ UNCHANGED <<ecg_data_queue, escaped>>
    /\ UNCHANGED <<bt_vars, c_pc, running, tick_ecg, ecg_pushed,
                   hr_delivered, ecg_delivered, parse_vars>>

\* notification_handler(_, data)
notification_handler(data) ==
    /\ Alive
    /\ "HRM_CHAR" \in subscribed
    /\ n_notify < MaxNotify
    /\ n_notify' = n_notify + 1
    /\ LET r == parse_hrm(data)
           item == [seq |-> Len(hr_pushed) + 1, hr |-> r.hr,
                    rr_list |-> r.rr_list, flags |-> r.flags]
           put == put_nowait(hr_data_queue, item)
       IN  IF r.raised # "none"
           THEN \* parse_hrm raised: nothing catches it in the handler
                /\ escaped' = escaped \cup {"notification_handler"}
                /\ UNCHANGED <<bridge_vars, hr_pushed, tick_hr>>
           ELSE /\ csv_log' = Append(csv_log, log_hr_data(r.hr, r.rr_list, <<>>))
                /\ hr_data_queue' = put.q
                /\ hr_pushed' = Append(hr_pushed, item)
                /\ tick_hr' = [tick_hr EXCEPT !.pushed = @ \/ ~put.full]
                /\ UNCHANGED <<ecg_data_queue, escaped>>
    /\ UNCHANGED <<bt_vars, viz_vars, c_pc, running, tick_ecg, ecg_pushed,
                   hr_delivered, ecg_delivered, parse_vars>>

\* a handler that forwards whatever parse_ecg_data returns, empty or not
ecg_notification_handler_unguarded(data) ==
    /\ Alive
    /\ "PMD_DATA" \in subscribed
    /\ n_notify < MaxNotify
    /\ n_notify' = n_notify + 1
    /\ LET samples == parse_ecg_data(data)
           item == [seq |-> Len(ecg_pushed) + 1, samples |-> samples]
           put == put_nowait(ecg_data_queue, item)
       IN  /\ ecg_data_queue' = put.q
           /\ ecg_pushed' = Append(ecg_pushed, item)
           /\ tick_ecg' = [tick_ecg EXCEPT !.pushed = @ \/ ~put.full]
    /\ UNCHANGED <<hr_data_queue, csv_log, bt_vars, viz_vars, c_pc, running,
                   tick_hr, hr_pushed, hr_delivered, ecg_delivered, escaped,
                   parse_vars>>

\* ecg_notification_handler(_, data)
ecg_notification_handler(data) ==
    /\ Alive
    /\ "PMD_DATA" \in subscribed
    /\ n_notify < MaxNotify
    /\ n_notify' = n_notify + 1
    /\ LET samples == parse_ecg_data(data)
           item == [seq |-> Len(ecg_pushed) + 1, samples |-> samples]
           put == put_nowait(ecg_data_queue, item)
       IN  IF samples # <<>>
           THEN /\ ecg_data_queue' = put.q
                /\ ecg_pushed' = Append(ecg_pushed, item)
                /\ tick_ecg' = [tick_ecg EXCEPT !.pushed = @ \/ ~put.full]
           ELSE UNCHANGED <<ecg_data_queue, ecg_pushed, tick_ecg>>
    /\ UNCHANGED <<hr_data_queue, csv_log, bt_vars, viz_vars, c_pc, running,
                   tick_hr, hr_pushed, hr_delivered, ecg_delivered, escaped,
                   parse_vars>>

(***************************************************************************)
(* The transport context: run_bluetooth and start_ecg_stream               *)
(***************************************************************************)
\* the start command with the sample rate written most significant byte first
start_cmd_big_endian == <<2, 0, 0, 130, 1, 1, 14, 0>>

\* bytearray([0x02, 0x00, 0x82, 0x00, 0x01, 0x01, 0x0E, 0x00])
start_cmd == <<2, 0, 130, 0, 1, 1, 14, 0>>

stop_cmd == <<3, 0>>

\* the error marker (0, [], {"error": str(e)})
ErrorMarker(seq) ==
    [seq |-> seq, hr |-> 0, rr_list |-> <<>>,
     flags |-> [NoFlags EXCEPT !.error = TRUE]]

bt_rest ==
    <<ecg_data_queue, csv_log, n_notify, viz_vars, loop_vars, ecg_pushed,
      hr_delivered, ecg_delivered, escaped, parse_vars>>

bt_step(pc, exc) ==
    /\ bt_pc' = pc
    /\ bt_exc' = exc
    /\ UNCHANGED <<hr_data_queue, hr_pushed, bt_rest>>

\* dev = await find_device(); a failure is raised outside the async with
find_device ==
    /\ Alive /\ bt_pc = "find_device"
    /\ \E ok \in BOOLEAN :
         IF ok THEN bt_step("connect", "none")
               ELSE bt_step("except", "Exception")
    /\ UNCHANGED <<services, ecg_started, subscribed, gatt_log, bt_printed>>

\* async with BleakClient(dev) as client: __aenter__ connects, discovers
connect ==
    /\ Alive /\ bt_pc = "connect"
    /\ \/ \E svcs \in SUBSET {"HRS_UUID", "PMD_SERVICE"} :
            /\ services' = svcs
            /\ bt_step("assert_hrs", "none")
       \/ /\ UNCHANGED services
          /\ bt_step("except", "Exception")
    /\ UNCHANGED <<ecg_started, subscribed, gatt_log, bt_printed>>

\* assert HRS_UUID in [s.uuid for s in svcs]; print("Subscribing to ...")
assert_hrs ==
    /\ Alive /\ bt_pc = "assert_hrs"
    /\ IF "HRS_UUID" \in services
       THEN /\ bt_step("start_notify_hrm", "none")
            /\ bt_printed' = Append(bt_printed, "Subscribing")
       ELSE /\ bt_step("aexit", "Exception")
            /\ UNCHANGED bt_printed
    /\ UNCHANGED <<services, ecg_started, subscribed, gatt_log>>

\* await client.start_notify(HRM_CHAR, notification_handler)
start_notify_hrm ==
    /\ Alive /\ bt_pc = "start_notify_hrm"
    /\ \E ok \in BOOLEAN :
         /\ gatt_log' = Append(gatt_log, <<"start_notify", "HRM_CHAR", ok>>)
         /\ subscribed' = IF ok THEN subscribed \cup {"HRM_CHAR"} ELSE subscribed
         /\ IF ok THEN bt_step("ecg_check_pmd", "none")
                  ELSE bt_step("aexit", "Exception")
    /\ UNCHANGED <<services, ecg_started, bt_printed>>

\* start_ecg_stream: if PMD_SERVICE not in client.services: return False
ecg_check_pmd ==
    /\ Alive /\ bt_pc = "ecg_check_pmd"
    /\ IF "PMD_SERVICE" \in services
       THEN /\ bt_step("ecg_start_notify", "none")
            /\ bt_printed' = Append(bt_printed, "Starting ECG stream")
       ELSE /\ bt_step("streaming", "none")
            /\ bt_printed' = bt_printed \o <<"PMD service not found",
                                              "Bluetooth connected">>
    /\ ecg_started' = FALSE
    /\ UNCHANGED <<services, subscribed, gatt_log>>

\* start_ecg_stream: await client.start_notify(PMD_DATA, ...); a failure is
\* caught by "except Exception" and start_ecg_stream returns False
ecg_start_notify ==
    /\ Alive /\ bt_pc = "ecg_start_notify"
    /\ \E ok \in BOOLEAN :
         /\ gatt_log' = Append(gatt_log, <<"start_notify", "PMD_DATA", ok>>)
         /\ subscribed' = IF ok THEN subscribed \cup {"PMD_DATA"} ELSE subscribed
         /\ IF ok THEN /\ bt_step("ecg_write_start", "none")
                       /\ UNCHANGED bt_printed
                  ELSE /\ bt_step("streaming", "none")
                       /\ bt_printed' = bt_printed \o <<"ECG setup failed",
                                                         "Bluetooth connected">>
    /\ ecg_started' = FALSE
    /\ UNCHANGED services

\* a start_ecg_stream that returns True whether or not the start write worked
ecg_write_start_always ==
    /\ Alive /\ bt_pc = "ecg_write_start"
    /\ \E ok \in BOOLEAN :
         /\ gatt_log' = Append(gatt_log, <<"write_gatt_char", start_cmd, ok>>)
         /\ ecg_started' = TRUE
         /\ bt_printed' = bt_printed \o
               (IF ok THEN <<"ECG streaming started", "Bluetooth connected + ECG">>
                      ELSE <<"ECG setup failed", "Bluetooth connected">>)
    /\ bt_step("streaming", "none")
    /\ UNCHANGED <<services, subscribed>>

\* start_ecg_stream: await client.write_gatt_char(PMD_CONTROL, start_cmd);
\* ecg_started is what start_ecg_stream returns
ecg_write_start ==
    /\ Alive /\ bt_pc = "ecg_write_start"
    /\ \E ok \in BOOLEAN :
         /\ gatt_log' = Append(gatt_log, <<"write_gatt_char", start_cmd, ok>>)
         /\ ecg_started' = ok
         /\ bt_printed' = bt_printed \o
               (IF ok THEN <<"ECG streaming started", "Bluetooth connected + ECG">>
                      ELSE <<"ECG setup failed", "Bluetooth connected">>)
    /\ bt_step("streaming", "none")
    /\ UNCHANGED <<services, subscribed>>

\* while True: await asyncio.sleep(1); the loop is left only by an exception
\* thrown into the await (the task is cancelled)
sleep_interrupted ==
    /\ Alive /\ bt_pc = "streaming"
    /\ bt_step("finally_stop_hrm", "CancelledError")
    /\ UNCHANGED <<services, ecg_started, subscribed, gatt_log, bt_printed>>

\* finally: await client.stop_notify(HRM_CHAR); a failure leaves the finally
\* block at once
finally_stop_hrm ==
    /\ Alive /\ bt_pc = "finally_stop_hrm"
    /\ \E ok \in BOOLEAN :
         /\ gatt_log' = Append(gatt_log, <<"stop_notify", "HRM_CHAR", ok>>)
         /\ subscribed' = IF ok THEN subscribed \ {"HRM_CHAR"} ELSE subscribed
         /\ IF ~ok THEN bt_step("aexit", "Exception")
            ELSE IF ecg_started THEN bt_step("finally_write_stop", bt_exc)
            ELSE bt_step("aexit", bt_exc)
    /\ UNCHANGED <<services, ecg_started, bt_printed>>

\* if ecg_started: try: await client.write_gatt_char(PMD_CONTROL, stop_cmd);
\* a failure is swallowed by the bare except, whose body is "pass"
finally_write_stop ==
    /\ Alive /\ bt_pc = "finally_write_stop"
    /\ \E ok \in BOOLEAN :
         /\ gatt_log' = Append(gatt_log, <<"write_gatt_char", stop_cmd, ok>>)
         /\ IF ok THEN bt_step("finally_stop_pmd", bt_exc)
                  ELSE bt_step("aexit", bt_exc)
    /\ UNCHANGED <<services, ecg_started, subscribed, bt_printed>>

\* await client.stop_notify(PMD_DATA), inside the same try, then
\* print("ECG streaming stopped")
finally_stop_pmd ==
    /\ Alive /\ bt_pc = "finally_stop_pmd"
    /\ \E ok \in BOOLEAN :
         /\ gatt_log' = Append(gatt_log, <<"stop_notify", "PMD_DATA", ok>>)
         /\ subscribed' = IF ok THEN subscribed \ {"PMD_DATA"} ELSE subscribed
         /\ bt_printed' = IF ok THEN Append(bt_printed, "ECG streaming stopped")
                                ELSE bt_printed
    /\ bt_step("aexit", bt_exc)
    /\ UNCHANGED <<services, ecg_started>>

\* BleakClient.__aexit__: disconnect; no callback fires afterwards.  An
\* Exception goes to the except clause, CancelledError (a BaseException)
\* leaves run_bluetooth
aexit ==
    /\ Alive /\ bt_pc = "aexit"
    /\ \E ok \in BOOLEAN :
         LET exc == IF ok THEN bt_exc ELSE "Exception"
         IN  IF exc = "Exception" THEN bt_step("except", exc)
                                  ELSE bt_step("raised", exc)
    /\ subscribed' = {}
    /\ UNCHANGED <<services, ecg_started, gatt_log, bt_printed>>

\* except Exception as e: print(f"Bluetooth error: {e}");
\* hr_data_queue.put_nowait((0, [], {"error": str(e)}))
except_handler ==
    /\ Alive /\ bt_pc = "except"
    /\ LET item == ErrorMarker(Len(hr_pushed) + 1)
           put == put_nowait(hr_data_queue, item)
       IN  /\ hr_data_queue' = put.q
           /\ hr_pushed' = Append(hr_pushed, item)
           /\ tick_hr' = [tick_hr EXCEPT !.pushed = @ \/ ~put.full]
           \* queue.Full is not caught here: it would leave run_bluetooth
           /\ bt_pc' = IF put.full THEN "raised" ELSE "returned"
    /\ bt_exc' = "none"
    /\ bt_printed' = Append(bt_printed, "Bluetooth error")
    /\ UNCHANGED <<services, ecg_started, subscribed, gatt_log, ecg_data_queue,
                   csv_log, n_notify, viz_vars, c_pc, running, tick_ecg,
                   ecg_pushed, hr_delivered, ecg_delivered, escaped, parse_vars>>

(***************************************************************************)
(* The consumer context: the loop of main                                  *)
(***************************************************************************)
\* what pygame.event.get() returns to one call of handle_events
EventBatches ==
    { <<>>, <<Quit>>, <<KeyDown("K_ESCAPE")>>, <<KeyDown("K_a")>>,
      <<VideoResize(4)>> }

NewTick(q) == [start |-> q, got |-> <<>>, pushed |-> FALSE]

\* running = visualizer.handle_events(); the heart-rate drain starts next
main_handle_events ==
    /\ c_pc = "handle_events"
    /\ \E events \in EventBatches :
         LET st == handle_events(events,
                     [result |-> TRUE, width |-> width,
                      hr_history |-> hr_history,
                      time_history |-> time_history,
                      ecg_history |-> ecg_history])
         IN  /\ running' = st.result
             /\ width' = st.width
             /\ hr_history' = st.hr_history
             /\ time_history' = st.time_history
             /\ ecg_history' = st.ecg_history
    /\ c_pc' = "drain_hr"
    /\ tick_hr' = NewTick(hr_data_queue)
    /\ UNCHANGED <<bridge_vars, bt_vars, n_notify, hr_min, hr_max, current_hr,
                   ecg_enabled, clock, dyn_args, tick_ecg, hist_vars,
                   parse_vars>>

\* a heart-rate drain that goes on to the ECG drain after one item
hr_loop_once(raised) == IF raised THEN "crashed" ELSE "drain_ecg"

\* "while True:" of the heart-rate drain: after an item, get the next one
hr_loop(raised) == IF raised THEN "crashed" ELSE "drain_hr"

\* hr, rr_list, flags = hr_data_queue.get_nowait();
\* visualizer.update_heart_rate(hr, rr_list)
main_drain_hr ==
    /\ c_pc = "drain_hr"
    /\ hr_data_queue # <<>>
    /\ LET got == get_nowait(hr_data_queue)
       IN  /\ hr_data_queue' = got.q
           /\ update_heart_rate(got.item.hr, got.item.rr_list)
           /\ hr_delivered' = Append(hr_delivered, got.item)
           /\ tick_hr' = [tick_hr EXCEPT !.got = Append(@, got.item)]
           /\ c_pc' = hr_loop(update_heart_rate_raises(got.item.hr))
    /\ UNCHANGED <<ecg_data_queue, csv_log, bt_vars, n_notify, running,
                   tick_ecg, hr_pushed, ecg_pushed, ecg_delivered, escaped,
                   parse_vars>>

\* except queue.Empty: pass; the ECG drain starts next
main_hr_empty ==
    /\ c_pc = "drain_hr"
    /\ hr_data_queue = <<>>
    /\ c_pc' = "drain_ecg"
    /\ tick_ecg' = NewTick(ecg_data_queue)
    /\ UNCHANGED <<bridge_vars, bt_vars, n_notify, viz_vars, running, tick_hr,
                   hist_vars, parse_vars>>

\* ecg_samples = ecg_data_queue.get_nowait();
\* visualizer.update_ecg_data(ecg_samples)
main_drain_ecg ==
    /\ c_pc = "drain_ecg"
    /\ ecg_data_queue # <<>>
    /\ LET got == get_nowait(ecg_data_queue)
       IN  /\ ecg_data_queue' = got.q
           /\ update_ecg_data(got.item.samples)
           /\ ecg_delivered' = Append(ecg_delivered, got.item)
           /\ tick_ecg' = [tick_ecg EXCEPT !.got = Append(@, got.item)]
    /\ UNCHANGED <<hr_data_queue, csv_log, bt_vars, n_notify, c_pc, running,
                   tick_hr, hr_pushed, ecg_pushed, hr_delivered, escaped,
                   parse_vars>>

\* except queue.Empty: pass
main_ecg_empty ==
    /\ c_pc = "drain_ecg"
    /\ ecg_data_queue = <<>>
    /\ c_pc' = "update_render"
    /\ UNCHANGED <<bridge_vars, bt_vars, n_notify, viz_vars, running, tick_hr,
                   tick_ecg, hist_vars, parse_vars>>

\* draw_grid divides by hr_max - hr_min
render_raises == hr_max = hr_min

\* visualizer.update(); visualizer.render(); then the test of "while running"
main_update_render ==
    /\ c_pc = "update_render"
    /\ c_pc' = IF render_raises THEN "crashed"
               ELSE IF running THEN "handle_events" ELSE "exited"
    /\ UNCHANGED <<bridge_vars, bt_vars, n_notify, viz_vars, running, tick_hr,
                   tick_ecg, hist_vars, parse_vars>>

(***************************************************************************)
(* The program                                                             *)
(***************************************************************************)
\* module load, setup_csv_logging(), HeartbeatVisualizer(hr_min=20,
\* hr_max=180), and the Bluetooth thread about to call find_device
InitProgram ==
    /\ hr_data_queue = <<>>
    /\ ecg_data_queue = <<>>
    /\ csv_log = <<>>
    /\ bt_pc = "find_device"
    /\ bt_exc = "none"
    /\ services = {}
    /\ ecg_started = FALSE
    /\ subscribed = {}
    /\ gatt_log = <<>>
    /\ bt_printed = <<>>
    /\ n_notify = 0
    /\ c_pc = "handle_events"
    /\ running = TRUE
    /\ width = InitWidth
    /\ hr_min = D(hr_min_base)
    /\ hr_max = D(hr_max_base)
    /\ current_hr = 0
    /\ hr_history = <<>>
    /\ time_history = <<>>
    /\ ecg_history = <<>>
    /\ ecg_enabled = FALSE
    /\ clock = 0
    /\ hr_pushed = <<>>
    /\ ecg_pushed = <<>>
    /\ hr_delivered = <<>>
    /\ ecg_delivered = <<>>
    /\ escaped = {}
    /\ dyn_args = {}
    /\ tick_hr = NewTick(<<>>)
    /\ tick_ecg = NewTick(<<>>)
    /\ p_result = [called |-> FALSE, out |-> Raised("none")]
    /\ e_result = [called |-> FALSE, samples |-> <<>>]

Init == InitProgram /\ p_data = <<>>

Next ==
    \/ find_device
    \/ connect
    \/ assert_hrs
    \/ start_notify_hrm
    \/ ecg_check_pmd
    \/ ecg_start_notify
    \/ ecg_write_start
    \/ sleep_interrupted
    \/ finally_stop_hrm
    \/ finally_write_stop
    \/ finally_stop_pmd
    \/ aexit
    \/ except_handler
    \/ \E data \in HrmPackets : notification_handler(data)
    \/ \E data \in EcgPackets : ecg_notification_handler(data)
    \/ main_handle_events
    \/ main_drain_hr
    \/ main_hr_empty
    \/ main_drain_ecg
    \/ main_ecg_empty
    \/ main_update_render

Spec == Init /\ [][Next]_vars

(***************************************************************************)
(* The visualizer alone: any sequence of update_heart_rate calls           *)
(***************************************************************************)
\* the heart rates fed to the visualizer: no signal, and 200 bpm
RangeBpm == {0, 200}

RangeRR == { <<>>, <<RNorm(512 * 1000, 1024)>> }

viz_update_heart_rate ==
    /\ c_pc # "crashed"
    /\ clock < MaxUpdates
    /\ \E hr \in RangeBpm, rr \in RangeRR :
         /\ update_heart_rate(hr, rr)
         /\ c_pc' = IF update_heart_rate_raises(hr) THEN "crashed" ELSE c_pc
    /\ UNCHANGED <<bridge_vars, bt_vars, n_notify, running, tick_hr, tick_ecg,
                   hist_vars, parse_vars>>

NextRange == viz_update_heart_rate

SpecRange == Init /\ [][NextRange]_vars

(***************************************************************************)
(* The program with an ECG stream that has no end.  The PMD data           *)
(* characteristic notifies for as long as it is subscribed; the history    *)
(* variables are left alone so that the stream can go on for ever in       *)
(* finitely many states, and for the same reason the run starts where the  *)
(* first handle_events has seen a VIDEORESIZE to a width of 4, which makes *)
(* ecg_history a deque of 16 samples.  The heart-rate characteristic is    *)
(* silent.  The steps of main are weakly fair: the main thread runs.       *)
(***************************************************************************)
\* Init after main_handle_events with the batch <<VideoResize(4)>>
InitStream ==
    /\ hr_data_queue = <<>> /\ ecg_data_queue = <<>> /\ csv_log = <<>>
    /\ bt_pc = "find_device" /\ bt_exc = "none" /\ services = {}
    /\ ecg_started = FALSE /\ subscribed = {} /\ gatt_log = <<>>
    /\ bt_printed = <<>> /\ n_notify = 0
    /\ c_pc = "drain_hr" /\ running = TRUE
    /\ width = 4
    /\ hr_min = D(hr_min_base) /\ hr_max = D(hr_max_base) /\ current_hr = 0
    /\ hr_history = <<>> /\ time_history = <<>> /\ ecg_history = <<>>
    /\ ecg_enabled = FALSE /\ clock = 0
    /\ hr_pushed = <<>> /\ ecg_pushed = <<>>
    /\ hr_delivered = <<>> /\ ecg_delivered = <<>>
    /\ escaped = {} /\ dyn_args = {}
    /\ tick_hr = NewTick(<<>>) /\ tick_ecg = NewTick(<<>>)
    /\ p_data = <<>>
    /\ p_result = [called |-> FALSE, out |-> Raised("none")]
    /\ e_result = [called |-> FALSE, samples |-> <<>>]

\* ecg_notification_handler(_, data), any number of times
stream_ecg_notification_handler(data) ==
    /\ Alive
    /\ "PMD_DATA" \in subscribed
    /\ Len(ecg_data_queue) < MaxQueue
    /\ LET samples == parse_ecg_data(data)
           item == [seq |-> 0, samples |-> samples]
           put == put_nowait(ecg_data_queue, item)
       IN  IF samples # <<>>
           THEN /\ ecg_data_queue' = put.q
                /\ tick_ecg' = [tick_ecg EXCEPT !.pushed = @ \/ ~put.full]
           ELSE UNCHANGED <<ecg_data_queue, tick_ecg>>
    /\ UNCHANGED <<hr_data_queue, csv_log, bt_vars, n_notify, viz_vars, c_pc,
                   running, tick_hr, hist_vars, parse_vars>>

\* ecg_samples = ecg_data_queue.get_nowait();
\* visualizer.update_ecg_data(ecg_samples)
stream_main_drain_ecg ==
    /\ c_pc = "drain_ecg"
    /\ ecg_data_queue # <<>>
    /\ LET got == get_nowait(ecg_data_queue)
       IN  /\ ecg_data_queue' = got.q
           /\ update_ecg_data(got.item.samples)
    /\ UNCHANGED <<hr_data_queue, csv_log, bt_vars, n_notify, c_pc, running,
                   tick_hr, tick_ecg, hist_vars, parse_vars>>

NextStream ==
    \/ find_device
    \/ connect
    \/ assert_hrs
    \/ start_notify_hrm
    \/ ecg_check_pmd
    \/ ecg_start_notify
    \/ ecg_write_start
    \/ sleep_interrupted
    \/ finally_stop_hrm
    \/ finally_write_stop
    \/ finally_stop_pmd
    \/ aexit
    \/ except_handler
    \/ \E data \in EcgPackets : stream_ecg_notification_handler(data)
    \/ main_handle_events
    \/ main_drain_hr
    \/ main_hr_empty
    \/ stream_main_drain_ecg
    \/ main_ecg_empty
    \/ main_update_render

\* the main thread is scheduled: each of its steps is taken if it stays enabled
MainFair ==
    /\ WF_vars(main_handle_events)
    /\ WF_vars(main_drain_hr)
    /\ WF_vars(main_hr_empty)
    /\ WF_vars(stream_main_drain_ecg)
    /\ WF_vars(main_ecg_empty)
    /\ WF_vars(main_update_render)

SpecStream == InitStream /\ [][NextStream]_vars /\ MainFair

(***************************************************************************)
(* The visualizer alone: update_heart_rate calls and window resizes in any *)
(* order                                                                   *)
(***************************************************************************)
\* the widths the window is resized to: hr_history then holds at most
\* 0, 0, 2 and 3 entries
ResizeWidths == {0, 1, 4, 7}

ResizeBpm == {0, 70}

viz_update_resizable ==
    /\ c_pc # "crashed"
    /\ clock < MaxResizeUpdates
    /\ \E hr \in ResizeBpm :
         /\ update_heart_rate(hr, <<>>)
         /\ c_pc' = IF update_heart_rate_raises(hr) THEN "crashed" ELSE c_pc
    /\ UNCHANGED <<bridge_vars, bt_vars, n_notify, running, tick_hr, tick_ecg,
                   hist_vars, parse_vars>>

\* handle_events() with one VIDEORESIZE event pending
viz_handle_events ==
    /\ c_pc # "crashed"
    /\ \E w \in ResizeWidths :
         LET st == handle_events(<<VideoResize(w)>>,
                     [result |-> TRUE, width |-> width,
                      hr_history |-> hr_history,
                      time_history |-> time_history,
                      ecg_history |-> ecg_history])
         IN  /\ running' = st.result
             /\ width' = st.width
             /\ hr_history' = st.hr_history
             /\ time_history' = st.time_history
             /\ ecg_history' = st.ecg_history
    /\ UNCHANGED <<bridge_vars, bt_vars, n_notify, hr_min, hr_max, current_hr,
                   ecg_enabled, clock, dyn_args, c_pc, tick_hr, tick_ecg,
                   hist_vars, parse_vars>>

NextResize == viz_update_resizable \/ viz_handle_events

SpecResize == Init /\ [][NextResize]_vars

(***************************************************************************)
(* The visualizer alone, fed every kind of rate parse_hrm can produce      *)
(***************************************************************************)
\* no signal, 1, a resting rate, the largest 8-bit rate, two 16-bit rates
WideBpm == {0, 1, 70, 255, 1420, 65535}

viz_update_wide ==
    /\ c_pc # "crashed"
    /\ clock < MaxWide
    /\ \E hr \in WideBpm, rr \in RangeRR :
         /\ update_heart_rate(hr, rr)
         /\ c_pc' = IF update_heart_rate_raises(hr) THEN "crashed" ELSE c_pc
    /\ UNCHANGED <<bridge_vars, bt_vars, n_notify, running, tick_hr, tick_ecg,
                   hist_vars, parse_vars>>

NextWide == viz_update_wide

SpecWide == Init /\ [][NextWide]_vars

(***************************************************************************)
(* The visualizer alone, fed a steady signal: the first reading repeated   *)
(***************************************************************************)
SteadyBpm == {50, 60, 70, 80, 90}

viz_update_steady ==
    /\ c_pc # "crashed"
    /\ clock < MaxSteady
    /\ \E hr \in SteadyBpm :
         /\ clock = 0 \/ hr = current_hr
         /\ update_heart_rate(hr, <<>>)
         /\ c_pc' = IF update_heart_rate_raises(hr) THEN "crashed" ELSE c_pc
    /\ UNCHANGED <<bridge_vars, bt_vars, n_notify, running, tick_hr, tick_ecg,
                   hist_vars, parse_vars>>

NextSteady == viz_update_steady

SpecSteady == Init /\ [][NextSteady]_vars

(***************************************************************************)
(* The heart-rate decoder alone: parse_hrm on every short buffer           *)
(***************************************************************************)
\* flags 0x00, 0x01 (16-bit), 0x02 (contact detected, not supported),
\* 0x11 (16-bit + RR), 0x18 (energy expended + RR), and 0x46 = 70 (as flags:
\* contact supported and detected)
ParseBytes == {0, 1, 2, 17, 24, 70}

BoundedSeqs(S, n) == UNION { [1..k -> S] : k \in 0..n }

InitParse == InitProgram /\ p_data \in BoundedSeqs(ParseBytes, MaxLen)

call_parse_hrm ==
    /\ ~p_result.called
    /\ p_result' = [called |-> TRUE, out |-> parse_hrm(p_data)]
    /\ UNCHANGED <<bridge_vars, bt_vars, n_notify, viz_vars, loop_vars,
                   hist_vars, p_data, e_result>>

NextParse == call_parse_hrm

SpecParse == InitParse /\ [][NextParse]_vars

(***************************************************************************)
(* The ECG decoder alone: parse_ecg_data on headers, whole and cut short,  *)
(* followed by every short run of sample bytes                             *)
(***************************************************************************)
\* 0x00, 0x01, 0x80 and 0xFF: as the third byte of a sample the last two set
\* its sign bit
EcgBytes == {0, 1, 128, 255}

\* the decoder never looks into the header: one filler value stands for it
HeaderFill == {0, 255}

EcgPayloads ==
    { [i \in 1..k |-> h] : k \in 0..9, h \in HeaderFill }
    \cup { [i \in 1..10 |-> h] \o body :
               h \in HeaderFill, body \in BoundedSeqs(EcgBytes, MaxEcgBody) }

InitEcg == InitProgram /\ p_data \in EcgPayloads

call_parse_ecg_data ==
    /\ ~e_result.called
    /\ e_result' = [called |-> TRUE, samples |-> parse_ecg_data(p_data)]
    /\ UNCHANGED <<bridge_vars, bt_vars, n_notify, viz_vars, loop_vars,
                   hist_vars, p_data, p_result>>

NextEcg == call_parse_ecg_data

SpecEcg == InitEcg /\ [][NextEcg]_vars

(***************************************************************************)
(* Properties                                                              *)
(***************************************************************************)
Exited == bt_pc \in {"returned", "raised"}

Logged(entry) == \E i \in DOMAIN gatt_log : gatt_log[i] = entry

\* delivered is a subsequence of pushed, in the same order, nothing twice
InOrder(delivered, pushed) ==
    \A i \in DOMAIN delivered :
        /\ delivered[i].seq \in DOMAIN pushed
        /\ pushed[delivered[i].seq] = delivered[i]
        /\ i > 1 => delivered[i - 1].seq < delivered[i].seq

\* C1: for a queue of capacity C, after C + 1 pushes with no drain in
\* between the queue holds exactly C events (the last one was dropped), for
\* the heart-rate queue and for the ECG queue.
C1_DropAtCapacity ==
    \A C \in 1..MaxNotify :
        /\ (hr_delivered = <<>> /\ Len(hr_pushed) = C + 1)
               => Len(hr_data_queue) = C
        /\ (ecg_delivered = <<>> /\ Len(ecg_pushed) = C + 1)
               => Len(ecg_data_queue) = C

\* C2: in each category the events handed to the visualizer are a
\* subsequence of the events pushed, in arrival order, none of them twice.
C2_FifoNoDuplicates ==
    /\ InOrder(hr_delivered, hr_pushed)
    /\ InOrder(ecg_delivered, ecg_pushed)

\* one tick has taken two heart-rate events out of a queue that held both
C2_Witness == Len(tick_hr.got) >= 2

\* C3: once a category's drain of this tick is over and nothing was pushed to
\* it since the drain began, every event that was queued at its start has
\* been delivered and the queue is empty; this holds in particular when
\* update()/render() runs.
C3_DrainAll ==
    /\ (c_pc \in {"drain_ecg", "update_render"} /\ ~tick_hr.pushed)
           => (tick_hr.got = tick_hr.start /\ hr_data_queue = <<>>)
    /\ (c_pc = "update_render" /\ ~tick_ecg.pushed)
           => (tick_ecg.got = tick_ecg.start /\ ecg_data_queue = <<>>)

\* update()/render() is about to run in a tick that found two heart-rate
\* events queued and saw no push during the drain
C3_Witness ==
    /\ c_pc = "update_render"
    /\ ~tick_hr.pushed
    /\ Len(tick_hr.start) >= 2

\* C4: when run_bluetooth has exited and ECG acquisition had been started,
\* the stop command has been written to the PMD control point.
C4_StopOnEveryExit ==
    (Exited /\ ecg_started)
        => \E ok \in BOOLEAN : Logged(<<"write_gatt_char", stop_cmd, ok>>)

\* C5: when run_bluetooth has exited, every characteristic whose
\* start_notify succeeded has been released by a stop_notify that succeeded.
C5_SubscriptionsReleased ==
    Exited =>
        \A ch \in {"HRM_CHAR", "PMD_DATA"} :
            Logged(<<"start_notify", ch, TRUE>>)
                => Logged(<<"stop_notify", ch, TRUE>>)

\* a buffer shorter than the minimum its flags byte requires
Truncated(data) ==
    \/ Len(data) = 0
    \/ Len(data) = 1
    \/ (Bit(data[1], 0) /\ Len(data) < 3)

\* C6: parse_hrm fails on every buffer shorter than the minimum its flags
\* byte requires; it never returns a sample for one.
C6_TruncatedFails ==
    (p_result.called /\ Truncated(p_data)) => p_result.out.raised # "none"

\* C7: no exception escapes a notification handler into the transport
\* context, whatever the buffer.
C7_MalformedHandledLocally == escaped = {}

\* C8: a run_bluetooth that ended in its except clause has put an error event
\* on the Bridge, and the main loop never hands an error event to
\* update_heart_rate as a heart-rate reading.
C8_TransportErrorDistinguished ==
    /\ bt_pc = "returned" => \E i \in DOMAIN hr_pushed : hr_pushed[i].flags.error
    /\ \A i \in DOMAIN hr_delivered : ~hr_delivered[i].flags.error

C10_ZeroLeavesRange ==
    /\ [](\A bpm \in dyn_args : bpm > 0)
    /\ [][(clock' # clock /\ current_hr' = 0)
              => (hr_min' = hr_min /\ hr_max' = hr_max)]_vars

\* a no-signal reading has been processed after the window had moved
C10_Witness ==
    /\ current_hr = 0
    /\ clock >= 2
    /\ hr_min # D(hr_min_base)

\* C11: for every bpm update_dynamic_range was invoked with, both targets
\* lie in the base interval: base_min <= target_min <= base_max and
\* base_min <= target_max <= base_max.
C11_TargetsClamped ==
    \A bpm \in dyn_args :
        /\ hr_min_base <= target_min(bpm) /\ target_min(bpm) <= hr_max_base
        /\ hr_min_base <= target_max(bpm) /\ target_max(bpm) <= hr_max_base

\* C20: hr_min < hr_max strictly, after any sequence of update_heart_rate
\* calls with rates in 0 .. 65535.
C20_RangePositive == DLt(hr_min, hr_max)

(***************************************************************************)
(* The Heart Rate Measurement layout, read field by field                  *)
(***************************************************************************)
\* the buffer holds its flags byte and the whole heart-rate field
LongEnough(data) ==
    /\ Len(data) >= 1
    /\ Len(data) >= (IF Bit(data[1], 0) THEN 3 ELSE 2)

RefBpm(data) ==
    IF Bit(data[1], 0) THEN data[2] + 256 * data[3] ELSE data[2]

\* bytes in front of the first RR field: flags, heart rate, energy expended
RefRRStart(data) ==
    1 + (IF Bit(data[1], 0) THEN 2 ELSE 1) + (IF Bit(data[1], 3) THEN 2 ELSE 0)

\* the k-th RR field is the k-th whole pair of bytes after RefRRStart
RefRR(data) ==
    LET s == RefRRStart(data)
        n == IF Bit(data[1], 4) /\ Len(data) > s THEN (Len(data) - s) \div 2
             ELSE 0
    IN  [k \in 1..n |->
            RNorm((data[s + 2 * k - 1] + 256 * data[s + 2 * k]) * 1000, 1024)]

C19_ContactNeedsSupport ==
    (/\ p_result.called
     /\ p_result.out.raised = "none"
     /\ ~Bit(p_data[1], 2)) =>
        /\ ~p_result.out.flags.sensor_contact_detected
        /\ contact(p_result.out.flags) # "yes"

\* two's complement of a 24-bit pattern
Signed24(u) == IF u >= 2 ^ 23 THEN u - 2 ^ 24 ELSE u

\* C13: parse_ecg_data returns on every payload: fewer than 13 bytes give the
\* empty list; n >= 13 bytes give floor((n - 10) / 3) samples, the k-th
\* (from 0) being the signed 24-bit little-endian value of bytes
\* 10+3k .. 12+3k, within -2^23 .. 2^23 - 1, in payload order, the trailing
\* 1 or 2 bytes ignored; ten zero bytes followed by 01 00 00 give [1].
C13_EcgSamples ==
    e_result.called =>
        LET n == Len(p_data)
            out == e_result.samples
        IN  /\ n < 13 => out = <<>>
            /\ n >= 13 =>
                  /\ Len(out) = (n - 10) \div 3
                  /\ \A k \in 0..(Len(out) - 1) :
                        /\ out[k + 1] =
                              Signed24(p_data[11 + 3 * k]
                                       + 256 * p_data[12 + 3 * k]
                                       + 65536 * p_data[13 + 3 * k])
                        /\ out[k + 1] >= -(2 ^ 23)
                        /\ out[k + 1] <= 2 ^ 23 - 1
            /\ p_data = <<0, 0, 0, 0, 0, 0, 0, 0, 0, 0, 1, 0, 0>> => out = <<1>>

\* two samples decoded, the second negative, and a trailing byte ignored
C13_Witness ==
    /\ e_result.called
    /\ Len(p_data) = 17
    /\ Len(e_result.samples) = 2
    /\ e_result.samples[2] < 0

\* C14: every decoded event is offered to log_hr_data no later than it is
\* put on the Bridge: each heart-rate event pushed by notification_handler
\* has a row with its bpm and RR intervals, and each ECG event pushed by
\* ecg_notification_handler has a row with its samples.
C14_EveryEventLogged ==
    /\ \A i \in DOMAIN hr_pushed :
          ~hr_pushed[i].flags.error =>
              \E j \in DOMAIN csv_log :
                  /\ csv_log[j].hr_bpm = hr_pushed[i].hr
                  /\ Len(csv_log[j].rr_intervals_ms) = Len(hr_pushed[i].rr_list)
    /\ \A i \in DOMAIN ecg_pushed :
          \E j \in DOMAIN csv_log :
              csv_log[j].ecg_samples = ecg_pushed[i].samples

\* the lines run_bluetooth and start_ecg_stream print about a failure
FailureLines == {"ECG setup failed", "Bluetooth error"}

\* the stop command or the unsubscribe after it was the last client call,
\* it failed, and the cleanup block has just been left
CleanupFailed ==
    /\ bt_pc = "aexit"
    /\ gatt_log # <<>>
    /\ gatt_log[Len(gatt_log)] \in
          { <<"write_gatt_char", stop_cmd, FALSE>>,
            <<"stop_notify", "PMD_DATA", FALSE>> }

\* C15: when the stop command or the unsubscribe after it fails during the
\* cleanup of run_bluetooth, a line about the failure has been printed, the
\* exception in flight is still the one that ended the streaming loop (none
\* escaped from the cleanup block), and no error event is on the Bridge.
C15_CleanupFailureLogged ==
    CleanupFailed =>
        /\ \E i \in DOMAIN bt_printed : bt_printed[i] \in FailureLines
        /\ bt_exc = "CancelledError"
        /\ \A i \in DOMAIN hr_pushed : ~hr_pushed[i].flags.error

\* a step of the transport context: run_bluetooth, start_ecg_stream, the
\* cleanup, or one of the two notification callbacks
TransportStep ==
    \/ find_device \/ connect \/ assert_hrs \/ start_notify_hrm
    \/ ecg_check_pmd \/ ecg_start_notify \/ ecg_write_start
    \/ sleep_interrupted
    \/ finally_stop_hrm \/ finally_write_stop \/ finally_stop_pmd
    \/ aexit \/ except_handler
    \/ \E data \in HrmPackets : notification_handler(data)
    \/ \E data \in EcgPackets : ecg_notification_handler(data)

\* C16: every transport-context step leaves hr_min and hr_max unchanged, and
\* a step that changes them is the main loop taking the head of
\* hr_data_queue, an item a transport step pushed earlier, and handing it to
\* update_heart_rate.
C16_RangeOwnedByConsumer ==
    [][/\ TransportStep => (hr_min' = hr_min /\ hr_max' = hr_max)
       /\ (hr_min' # hr_min \/ hr_max' # hr_max) =>
             /\ c_pc = "drain_hr"
             /\ hr_data_queue # <<>>
             /\ \E i \in DOMAIN hr_pushed : hr_pushed[i] = Head(hr_data_queue)
             /\ hr_data_queue' = Tail(hr_data_queue)
             /\ hr_delivered' = Append(hr_delivered, Head(hr_data_queue))]_vars

\* the range has moved after a reading went through the Bridge
C16_Witness ==
    /\ hr_min # D(hr_min_base)
    /\ \E i \in DOMAIN hr_delivered : hr_delivered[i].hr > 0

\* a PMD command read against the layout: opcode, stream type, 16-bit
\* little-endian sample rate, settings
PmdDecode(cmd) ==
    [opcode |-> cmd[1],
     type |-> cmd[2],
     rate |-> cmd[3] + 256 * cmd[4],
     settings |-> SubSeq(cmd, 5, Len(cmd))]

\* the commands written to PMD_CONTROL so far
PmdWrites ==
    { gatt_log[i][2] : i \in { j \in DOMAIN gatt_log :
                                   gatt_log[j][1] = "write_gatt_char" } }

\* C17: every command written to PMD_CONTROL is one of two fixed sequences:
\* the start command [0x02, 0x00, 0x82, 0x00, 0x01, 0x01, 0x0E, 0x00], which
\* decodes to opcode 0x02, type 0x00 (ECG) and rate 130, or the two-byte stop
\* command [0x03, 0x00], whose type is the start command's.
C17_PmdCommands ==
    \A cmd \in PmdWrites :
        \/ /\ cmd = <<2, 0, 130, 0, 1, 1, 14, 0>>
           /\ PmdDecode(cmd).opcode = 2
           /\ PmdDecode(cmd).type = 0
           /\ PmdDecode(cmd).rate = 130
        \/ /\ Len(cmd) = 2
           /\ cmd = <<3, 0>>
           /\ cmd[2] = PmdDecode(start_cmd).type

\* both commands have been written
C17_Witness ==
    /\ \E cmd \in PmdWrites : Len(cmd) = 8
    /\ \E cmd \in PmdWrites : Len(cmd) = 2

\* a tolerance with the number of calls after which it is met:
\* 90 * 0.9^n is below 30 from n = 11, below 20 from n = 15, below 10 from
\* n = 21
Tolerances ==
    { [calls |-> 11, lo |-> D(20), hi |-> D(120)],
      [calls |-> 15, lo |-> D(30), hi |-> D(110)],
      [calls |-> 21, lo |-> D(40), hi |-> D(100)] }

\* a call update_dynamic_range(70) in a run of such calls
Call70 == clock' = clock + 1 /\ current_hr' = 70

WritesOf(cmd) ==
    { i \in DOMAIN gatt_log :
          gatt_log[i][1] = "write_gatt_char" /\ gatt_log[i][2] = cmd }

\* C21: within a run_bluetooth session the stop command is written only after
\* a successful write of the start command, each of the two commands is
\* written at most once, and the start command is written only after the
\* PMD_DATA subscription was established.
C21_PmdWritesOrdered ==
    /\ \A j \in WritesOf(stop_cmd) :
          \E i \in WritesOf(start_cmd) : i < j /\ gatt_log[i][3]
    /\ Cardinality(WritesOf(start_cmd)) <= 1
    /\ Cardinality(WritesOf(stop_cmd)) <= 1
    /\ \A j \in WritesOf(start_cmd) :
          \E i \in 1..(j - 1) : gatt_log[i] = <<"start_notify", "PMD_DATA", TRUE>>

\* the stop command has been written (after the start command)
C21_Witness == WritesOf(stop_cmd) # {} /\ WritesOf(start_cmd) # {}

\* C22: with the steps of main weakly fair, every tick whose drains have
\* begun reaches visualizer.update() / render() (or main has ended),
\* whatever the producer does in between.
C22_TickReachesRender ==
    (c_pc = "drain_hr") ~> (c_pc \in {"update_render", "exited", "crashed"})

\* the entries of the two histories side by side
Zip(h, t) == [i \in 1..Min(Len(h), Len(t)) |-> <<h[i], t[i]>>]

\* C23: over update_heart_rate calls and resizes, hr_history and
\* time_history keep the same length, at most width // 2; the two move
\* together: a call puts the rate and its timestamp at the same index, and
\* whatever a call or a resize discards is the oldest entries of both, no
\* more of them than the bound requires.
C23_HistoriesPaired ==
    [][LET old == Zip(hr_history, time_history)
           new == Zip(hr_history', time_history')
           called == clock' # clock
           all == IF called THEN Append(old, <<current_hr', clock'>>) ELSE old
       IN  /\ Len(hr_history') = Len(time_history')
           /\ Len(hr_history') <= width' \div 2
           /\ new = LastN(all, Len(new))
           /\ Len(new) = Min(Len(all), width' \div 2)]_vars

\* the window was resized to a width of 4 and a later call pushed the oldest
\* entry out
C23_Witness ==
    /\ width = 4
    /\ Len(hr_history) = 2
    /\ time_history = <<clock - 1, clock>>
    /\ clock >= 3

\* nothing empty is on ecg_data_queue or was ever put on it, and ecg_enabled
\* is set only once a sample has been handed to update_ecg_data
EcgAbsorbed ==
    /\ \A i \in DOMAIN ecg_data_queue : ecg_data_queue[i].samples # <<>>
    /\ \A i \in DOMAIN ecg_pushed : ecg_pushed[i].samples # <<>>
    /\ ecg_enabled =>
          \E i \in DOMAIN ecg_delivered : Len(ecg_delivered[i].samples) >= 1

\* C24: ecg_notification_handler never enqueues an empty sample list, so
\* every element of ecg_data_queue is non-empty; ecg_enabled is true only
\* after at least one ECG sample was delivered, and once true it stays true.
C24_ShortFramesAbsorbed ==
    [][/\ EcgAbsorbed
       /\ EcgAbsorbed'
       /\ ecg_enabled => ecg_enabled']_vars

\* one keep-alive frame was absorbed, one frame with samples was delivered
C24_Witness ==
    /\ n_notify = 2
    /\ hr_pushed = <<>>
    /\ escaped = {}
    /\ Len(ecg_pushed) = 1
    /\ ecg_enabled

====
